---- MODULE Spec2Model ----
(***************************************************************************)
(* State-machine model of src/main.py: MassReportBot.run, the per-account  *)
(* report_worker coroutines, send_report, smart_delay, rotate_reasons and  *)
(* the reset_daily_counts timer.  The program runs on one asyncio event    *)
(* loop, so every action below is the code executed by one coroutine from  *)
(* one await to the next await.                                            *)
(*                                                                         *)
(* Durations are kept in tenths of a second (random.uniform(1.2, 1.8) is   *)
(* drawn in tenths: 12..18), the timer's sleep in milliseconds.            *)
(***************************************************************************)
EXTENDS Integers, Sequences, FiniteSets, TLC

\* ------------------------------------------------------------------ bounds
\* Positions of self.accounts (the list order of the configuration file).
Accounts == {1, 2}
\* The tasks that execute run(): one per call a caller may have in progress
\* at a time (TelegramReportBot.start_reporting awaits run() on every call, and
\* nothing keeps a second call from starting while the first is suspended).
Runs == {1, 2}
\* reports_per_day is drawn from 1..MaxCap.
MaxCap == 2
\* max_reports_per_account is drawn from 1..MaxReports.
MaxReports == 3
\* A behaviour meets at most MaxFaults outcomes that are not a clean success
\* (FloodWaitError, another exception of the gateway, an os.makedirs that
\* raises in save_report_log, a SUCCESS record whose write fails and is
\* swallowed, a disconnect() that raises).
MaxFaults == 1

\* ------------------------------------------------------- program constants
MinDelay == 30
MaxDelay == 120
FloodJitterMin == 5
FloodJitterMax == 15
BatchBreakMin == 300
BatchBreakMax == 900
ErrorSleep == 60
PauseMin == 60
PauseMax == 300
FatigueThreshold == 10
DaySeconds == 86400
Milli == 1000

\* random.randint(a, b): every integer of a..b.
randint(a, b) == a..b
\* The draws of randint(a, b) the workers of Spec take: both ends of the range.
Ends(a, b) == {a, b}

\* ---------------------------------------------------------- rotate_reasons
base_reasons == <<"spam", "fake", "violence", "copyright", "other">>

\* Mutant of swap: x[i] = x[j] alone, the other half of the exchange lost.
swap_overwrite(x, i, j) == [x EXCEPT ![i + 1] = x[j + 1]]

\* x[i], x[j] = x[j], x[i] with Python's 0-based positions.
swap(x, i, j) == [x EXCEPT ![i + 1] = x[j + 1], ![j + 1] = x[i + 1]]

\* random.shuffle(x): for i in reversed(range(1, len(x))): j = randbelow(i+1);
\* swap x[i], x[j].  js[i] is the draw j taken at position i.
RECURSIVE shuffle_from(_, _, _)
shuffle_from(x, js, i) ==
    IF i < 1 THEN x ELSE shuffle_from(swap(x, i, js[i]), js, i - 1)

shuffle(x, js) == shuffle_from(x, js, Len(x) - 1)

\* All the draw vectors random.shuffle can take on a list of five.
ShuffleDraws == {js \in [1..4 -> 0..4] : \A i \in 1..4 : js[i] <= i}

\* rotate_reasons with its three random draws: choice = random.choice([True,
\* False]), js = the draws of random.shuffle, r = random.random() in tenths.
rotate_reasons(choice, js, r) ==
    LET reasons == IF choice THEN shuffle(base_reasons, js) ELSE base_reasons
    IN  IF r < 3 THEN <<"spam", "spam", "fake">> ELSE reasons

\* ------------------------------------------------------------- smart_delay
\* Mutant of smart_delay: the fatigue factor applied from 10 reports on
\* (">=" for ">").
smart_delay_from_ten(today, base, factor, chance, pause) ==
    LET d1 == IF today >= FatigueThreshold THEN base * factor ELSE base * 10
    IN  IF chance < 1 THEN d1 + pause * 10 ELSE d1

\* delay in tenths of a second.  base = random.randint(min_delay, max_delay),
\* factor = random.uniform(1.2, 1.8) in tenths, chance = random.random() in
\* tenths, pause = random.randint(60, 300).
smart_delay(today, base, factor, chance, pause) ==
    LET d1 == IF today > FatigueThreshold THEN base * factor ELSE base * 10
    IN  IF chance < 1 THEN d1 + pause * 10 ELSE d1

\* ------------------------------------------------------ reset_daily_counts
\* Mutant of tomorrow_of: replace(hour=0, minute=0) without second=0.
tomorrow_keeps_second(t) == [day |-> 1, h |-> 0, m |-> 0, s |-> t.s, ms |-> t.ms]

\* t = [h, m, s, ms] is datetime.now(), its sub-second part in milliseconds;
\* tomorrow = (now + timedelta(days=1)).replace(hour=0,
\* minute=0, second=0) keeps the sub-second part and lies one calendar day on.
tomorrow_of(t) == [day |-> 1, h |-> 0, m |-> 0, s |-> 0, ms |-> t.ms]

\* Milliseconds since midnight of day 0.
stamp(t) == ((t.day * DaySeconds) + t.h * 3600 + t.m * 60 + t.s) * Milli + t.ms

\* sleep_time = (tomorrow - now).total_seconds(), in milliseconds.
sleep_time_of(t) ==
    stamp(tomorrow_of(t)) - stamp([day |-> 0, h |-> t.h, m |-> t.m,
                                   s |-> t.s, ms |-> t.ms])


\* ------------------------------------------------------------------- state
VARIABLES
    enabled,           \* Account.enabled, by position in self.accounts
    reports_today,     \* Account.reports_today
    last_report_time,  \* Account.last_report_time: 0 is None, k the k-th
                       \* datetime.now() that send_report stored for the account
    reports_per_day,   \* ReportConfig.reports_per_day
    max_reports,       \* ReportConfig.max_reports_per_account
    clients,           \* keys of self.clients, in the dict's (insertion) order
    connected,         \* accounts whose client in self.clients is connected
    replaced,          \* per account, the connected clients that a later
                       \* initialize_client replaced in self.clients
    leaked,            \* per account, the clients that an initialize_client
                       \* connected and never stored in self.clients
    running,           \* self.running
    runs_left,         \* calls of run() the caller has yet to make
    mainPc,            \* per call of run(): its position
    initPc,            \* per call of run(): state of each initialize_client task
    worker,            \* per call of run(): each report_worker task, position
                       \* and locals
    disc,              \* per call of run(): the loop over self.clients.values()
    faults,            \* steps so far in which the gateway or the log sink
                       \* raised an exception
    fault_budget,      \* the most such steps the gateway and the log sink
                       \* make in this behaviour
    log,               \* entries save_report_log appended, per account and status
    resetPc,           \* per call of run(): position of its reset_daily_counts task
    now,               \* per call of run(): the datetime.now() its timer read last
    sleep_time,        \* per call of run(): the sleep_time computed from it, in
                       \* milliseconds
    rr,                \* SpecRotate: draws and result of one rotate_reasons call
    sd,                \* SpecDelay: draws and result of one smart_delay call
    ck                 \* SpecTimer: a clock reading and the sleep_time computed

vars == <<enabled, reports_today, last_report_time, reports_per_day,
          max_reports, clients, connected, replaced, leaked, disc, running,
          runs_left,
          mainPc, initPc, worker, faults, fault_budget, log, resetPc, now,
          sleep_time, rr, sd, ck>>

config == <<enabled, reports_per_day, max_reports>>
pure == <<rr, sd, ck>>

\* A report_worker whose task does not exist.
\* flood_idx and flood_reasons are history: the position and the batch of the
\* latest FloodWaitError, kept until the outcome of the worker's next call.
NoWorker == [pc |-> "none", reports_sent |-> 0, reasons |-> <<>>, idx |-> 0,
             sleep |-> 0, wait |-> 0, flood_idx |-> 0, flood_reasons |-> <<>>]

NoTime == [h |-> 0, m |-> 0, s |-> 0, ms |-> 0]

\* "for client in self.clients.values()" not being executed.  Else i is the
\* position (in dict order) of the client whose disconnect() is awaited, n the
\* size of the dict when the loop began, and client tells what became of that
\* client during the await: "current" (still the value in self.clients),
\* "orphan" (replaced while connected) or "dead" (replaced when disconnected).
\* closed tells whether disconnect() has closed the connection and has yet to
\* return to run().
NoDisc == [i |-> 0, n |-> 0, client |-> "none", closed |-> FALSE]

\* The keys of the dict d.
Keys(d) == {d[i] : i \in 1..Len(d)}

NoRotate == [called |-> FALSE, choice |-> FALSE, js |-> <<0, 0, 0, 0>>, r |-> 0,
             reasons |-> <<>>]
NoDelay == [called |-> FALSE, min |-> 0, max |-> 0, today |-> 0, base |-> 0,
            factor |-> 12, chance |-> 5, pause |-> PauseMin, delay |-> 0]
NoClock == [called |-> FALSE, t |-> NoTime, sleep_time |-> 0]

\* ------------------------------------------------------- draws used by Spec
SampleShuffles == {<<0, 0, 0, 0>>}
SampleChance == {0, 5}
SampleFactor == {12, 18}
\* FloodWaitError.seconds
FloodSeconds == {30}
\* datetime.now() as read by the timer: 23:59:50
Nows == {[h |-> 23, m |-> 59, s |-> 50, ms |-> 0]}

\* The batches the workers of Spec draw: the shuffled order of SampleShuffles
\* and the override <<spam, spam, fake>> (SpecRotate takes every draw).
Batches == {rotate_reasons(c, js, r) :
                c \in {TRUE}, js \in SampleShuffles, r \in SampleChance}

\* The delays the workers of Spec draw: the lowest base, no extra pause
\* (SpecDelay takes the other draws).
Delays(today) == {smart_delay(today, b, f, c, p) :
                      b \in {MinDelay}, f \in SampleFactor,
                      c \in {5}, p \in {PauseMin}}

\* ----------------------------------------------------------- report_worker
\* The operators below give the set of records a worker can hold when its
\* coroutine reaches the next await; the random draws make it a set.

\* The coroutine returned ("Finished. Sent N reports.").
Done(w) == [NoWorker EXCEPT !.pc = "done", !.reports_sent = w.reports_sent]

\* After the for loop: the rest between batches (drawn at its lowest value),
\* or the while test again, which the same values make false.
AfterBatch(w) ==
    IF w.reports_sent < max_reports /\ running
    THEN {[w EXCEPT !.pc = "batch_break", !.sleep = d * 10,
                    !.reasons = <<>>, !.idx = 0] :
              d \in {BatchBreakMin}}
    ELSE {Done(w)}

\* Mutant of ForTop: the for loop without its "reports_sent >= max_reports" test.
ForTop_NoMaxTest(w) ==
    IF w.idx > Len(w.reasons) THEN AfterBatch(w)
    ELSE IF ~running THEN AfterBatch(w)
    ELSE {[w EXCEPT !.pc = "get_entity"]}

\* Top of "for reason in reasons" at position w.idx.
ForTop(w) ==
    IF w.idx > Len(w.reasons) THEN AfterBatch(w)
    ELSE IF ~running \/ w.reports_sent >= max_reports THEN AfterBatch(w)
    ELSE {[w EXCEPT !.pc = "get_entity"]}

\* Mutant of WhileTop: the daily limit tested with ">" for ">=".
WhileTop_StrictLimit(w, today) ==
    IF running /\ w.reports_sent < max_reports
    THEN IF today > reports_per_day
         THEN {Done(w)}
         ELSE UNION {ForTop([w EXCEPT !.reasons = b, !.idx = 1]) : b \in Batches}
    ELSE {Done(w)}

\* Top of "while self.running and reports_sent < max_reports".
WhileTop(w, today) ==
    IF running /\ w.reports_sent < max_reports
    THEN IF today >= reports_per_day
         THEN {Done(w)}
         ELSE UNION {ForTop([w EXCEPT !.reasons = b, !.idx = 1]) : b \in Batches}
    ELSE {Done(w)}

\* Mutant of AfterSend: smart_delay is awaited only when a reason is left in
\* the batch.
AfterSend_OnlyBetween(w, success, today) ==
    LET w1 == [w EXCEPT !.reports_sent = IF success THEN @ + 1 ELSE @,
                        !.sleep = 0, !.wait = 0]
    IN  IF w1.reports_sent < max_reports /\ w1.idx < Len(w1.reasons)
        THEN {[w1 EXCEPT !.pc = "smart_delay", !.sleep = d] : d \in Delays(today)}
        ELSE ForTop([w1 EXCEPT !.idx = @ + 1])

\* send_report returned: count a success, pace, go to the next reason.
AfterSend(w, success, today) ==
    LET w1 == [w EXCEPT !.reports_sent = IF success THEN @ + 1 ELSE @,
                        !.sleep = 0, !.wait = 0]
    IN  IF w1.reports_sent < max_reports
        THEN {[w1 EXCEPT !.pc = "smart_delay", !.sleep = d] : d \in Delays(today)}
        ELSE ForTop([w1 EXCEPT !.idx = @ + 1])

\* "except Exception" of the worker's loop.
WorkerError(w) ==
    [w EXCEPT !.pc = "error_sleep", !.sleep = ErrorSleep * 10,
              !.reasons = <<>>, !.idx = 0, !.wait = 0]


\* The first step of every task created by call r of run() is taken, in
\* creation order, before any await of another task of that call completes
\* (call_soon is first in, first out).  Steps of another call of run() that
\* were ready already may come in between.
Started(r) ==
    /\ resetPc[r] # "created"
    /\ \A a \in Accounts : worker[r][a].pc # "start"

SetWorker(r, a, w) == worker' = [worker EXCEPT ![r][a] = w]
CanFault == faults < fault_budget
Fault == faults' = faults + 1
Logged(a, status) == log' = [log EXCEPT ![a][status] = @ + 1]

\* save_report_log returned in a step that already counts as a fault: it
\* appended the record, or its "except Exception" took a failure of open,
\* json.load or json.dump and nothing was written.
save_report_log(a, status) == Logged(a, status) \/ UNCHANGED log

\* report_worker from its first line to the first await.
WorkerStart(r, a) ==
    /\ worker[r][a].pc = "start"
    /\ resetPc[r] # "created"
    /\ \A b \in Accounts : b < a => worker[r][b].pc # "start"
    /\ \E w \in (IF ~enabled[a] \/ a \notin Keys(clients)
                 THEN {Done(worker[r][a])}
                 ELSE WhileTop([worker[r][a] EXCEPT !.reports_sent = 0],
                               reports_today[a])) :
           SetWorker(r, a, w)
    /\ UNCHANGED <<config, fault_budget, runs_left, reports_today, last_report_time, clients, connected, replaced, leaked, disc,
                   running, mainPc, initPc, faults, log, resetPc, now,
                   sleep_time, pure>>

\* send_report: client.get_entity returned the channel.
GetEntityOk(r, a) ==
    /\ Started(r)
    /\ worker[r][a].pc = "get_entity"
    /\ SetWorker(r, a, [worker[r][a] EXCEPT !.pc = "report_request", !.flood_idx = 0,
                                       !.flood_reasons = <<>>])
    /\ UNCHANGED <<config, fault_budget, runs_left, reports_today, last_report_time, clients, connected, replaced, leaked, disc,
                   running, mainPc, initPc, faults, log, resetPc, now,
                   sleep_time, pure>>

\* Mutant of ReportSuccess: the new reports_today is computed from a count
\* that the timer does not zero (the number of "SUCCESS" records).
ReportSuccess_StaleCount(r, a) ==
    /\ Started(r)
    /\ worker[r][a].pc = "report_request"
    /\ reports_today' = [reports_today EXCEPT ![a] = log[a].SUCCESS + 1]
    /\ last_report_time' = [last_report_time EXCEPT ![a] = @ + 1]
    /\ \/ /\ Logged(a, "SUCCESS")
          /\ UNCHANGED faults
       \/ /\ CanFault
          /\ Fault
          /\ UNCHANGED log
    /\ \E w \in AfterSend(worker[r][a], TRUE, reports_today[a] + 1) : SetWorker(r, a, w)
    /\ UNCHANGED <<config, fault_budget, runs_left, clients, connected, replaced, leaked, disc, running, mainPc, initPc, resetPc,
                   now, sleep_time, pure>>

\* send_report: ReportRequest completed, the counters were updated and
\* save_report_log returned: it wrote "SUCCESS", or (a fault) its "except
\* Exception" took a failure of open, json.load or json.dump and nothing was
\* written.  send_report returns True either way.
ReportSuccess(r, a) ==
    /\ Started(r)
    /\ worker[r][a].pc = "report_request"
    /\ reports_today' = [reports_today EXCEPT ![a] = @ + 1]
    /\ last_report_time' = [last_report_time EXCEPT ![a] = @ + 1]
    /\ \/ /\ Logged(a, "SUCCESS")
          /\ UNCHANGED faults
       \/ /\ CanFault
          /\ Fault
          /\ UNCHANGED log
    /\ \E w \in AfterSend(worker[r][a], TRUE, reports_today[a] + 1) : SetWorker(r, a, w)
    /\ UNCHANGED <<config, fault_budget, runs_left, clients, connected, replaced, leaked, disc, running, mainPc, initPc, resetPc,
                   now, sleep_time, pure>>

\* send_report: ReportRequest completed, the counters were updated and
\* save_report_log raised (os.makedirs is outside its try).  "except Exception"
\* then calls save_report_log again: it returns (with "FAILED" written, or
\* with nothing written) and send_report
\* returns False, or it raises again and the worker's loop catches it.
ReportLogError(r, a) ==
    /\ Started(r)
    /\ worker[r][a].pc = "report_request"
    /\ CanFault
    /\ Fault
    /\ reports_today' = [reports_today EXCEPT ![a] = @ + 1]
    /\ last_report_time' = [last_report_time EXCEPT ![a] = @ + 1]
    /\ \/ /\ save_report_log(a, "FAILED")
          /\ \E w \in AfterSend(worker[r][a], FALSE, reports_today[a] + 1) :
                 SetWorker(r, a, w)
       \/ /\ SetWorker(r, a, WorkerError(worker[r][a]))
          /\ UNCHANGED log
    /\ UNCHANGED <<config, fault_budget, runs_left, clients, connected, replaced, leaked, disc, running, mainPc, initPc, resetPc,
                   now, sleep_time, pure>>

\* Mutant of FloodWait: the sleep without the random.randint(5, 15) added.
FloodWait_NoJitter(r, a) ==
    /\ Started(r)
    /\ worker[r][a].pc \in {"get_entity", "report_request"}
    /\ CanFault
    /\ Fault
    /\ \E secs \in FloodSeconds :
           SetWorker(r, a, [worker[r][a] EXCEPT !.pc = "flood_sleep", !.wait = secs,
                                          !.sleep = secs * 10,
                                          !.flood_idx = worker[r][a].idx,
                                          !.flood_reasons = worker[r][a].reasons])
    /\ UNCHANGED <<config, fault_budget, runs_left, reports_today, last_report_time, clients, connected, replaced, leaked, disc,
                   running, mainPc, initPc, log, resetPc, now, sleep_time, pure>>

\* send_report: get_entity or ReportRequest raised FloodWaitError(seconds):
\* await asyncio.sleep(e.seconds + random.randint(5, 15)).
FloodWait(r, a) ==
    /\ Started(r)
    /\ worker[r][a].pc \in {"get_entity", "report_request"}
    /\ CanFault
    /\ Fault
    /\ \E secs \in FloodSeconds, j \in Ends(FloodJitterMin, FloodJitterMax) :
           SetWorker(r, a, [worker[r][a] EXCEPT !.pc = "flood_sleep", !.wait = secs,
                                          !.sleep = (secs + j) * 10,
                                          !.flood_idx = worker[r][a].idx,
                                          !.flood_reasons = worker[r][a].reasons])
    /\ UNCHANGED <<config, fault_budget, runs_left, reports_today, last_report_time, clients, connected, replaced, leaked, disc,
                   running, mainPc, initPc, log, resetPc, now, sleep_time, pure>>

\* send_report: get_entity or ReportRequest raised another exception:
\* save_report_log returns (with "FAILED" written, or with nothing written)
\* and send_report returns False, or
\* save_report_log raises and the worker's loop catches it.
ReportFailed(r, a) ==
    /\ Started(r)
    /\ worker[r][a].pc \in {"get_entity", "report_request"}
    /\ CanFault
    /\ Fault
    /\ \/ /\ save_report_log(a, "FAILED")
          /\ \E w \in AfterSend([worker[r][a] EXCEPT !.flood_idx = 0,
                                                  !.flood_reasons = <<>>],
                                FALSE, reports_today[a]) :
                 SetWorker(r, a, w)
       \/ /\ SetWorker(r, a, WorkerError([worker[r][a] EXCEPT !.flood_idx = 0,
                                                       !.flood_reasons = <<>>]))
          /\ UNCHANGED log
    /\ UNCHANGED <<config, fault_budget, runs_left, reports_today, last_report_time, clients, connected, replaced, leaked, disc,
                   running, mainPc, initPc, resetPc, now, sleep_time, pure>>

\* The flood sleep ended: send_report returns False.
FloodWake(r, a) ==
    /\ Started(r)
    /\ worker[r][a].pc = "flood_sleep"
    /\ \E w \in AfterSend(worker[r][a], FALSE, reports_today[a]) : SetWorker(r, a, w)
    /\ UNCHANGED <<config, fault_budget, runs_left, reports_today, last_report_time, clients, connected, replaced, leaked, disc,
                   running, mainPc, initPc, faults, log, resetPc, now,
                   sleep_time, pure>>

\* smart_delay's sleep ended: the for loop takes the next reason.
DelayWake(r, a) ==
    /\ Started(r)
    /\ worker[r][a].pc = "smart_delay"
    /\ \E w \in ForTop([worker[r][a] EXCEPT !.idx = @ + 1, !.sleep = 0]) :
           SetWorker(r, a, w)
    /\ UNCHANGED <<config, fault_budget, runs_left, reports_today, last_report_time, clients, connected, replaced, leaked, disc,
                   running, mainPc, initPc, faults, log, resetPc, now,
                   sleep_time, pure>>

\* The rest between batches ended: back to the while test.
BreakWake(r, a) ==
    /\ Started(r)
    /\ worker[r][a].pc = "batch_break"
    /\ \E w \in WhileTop([worker[r][a] EXCEPT !.sleep = 0], reports_today[a]) :
           SetWorker(r, a, w)
    /\ UNCHANGED <<config, fault_budget, runs_left, reports_today, last_report_time, clients, connected, replaced, leaked, disc,
                   running, mainPc, initPc, faults, log, resetPc, now,
                   sleep_time, pure>>

\* The 60 s sleep of the worker's "except Exception" ended: back to the while test.
ErrorWake(r, a) ==
    /\ Started(r)
    /\ worker[r][a].pc = "error_sleep"
    /\ \E w \in WhileTop([worker[r][a] EXCEPT !.sleep = 0], reports_today[a]) :
           SetWorker(r, a, w)
    /\ UNCHANGED <<config, fault_budget, runs_left, reports_today, last_report_time, clients, connected, replaced, leaked, disc,
                   running, mainPc, initPc, faults, log, resetPc, now,
                   sleep_time, pure>>


\* ------------------------------------------------------ reset_daily_counts
\* "while self.running": read the clock, compute sleep_time, sleep; or return.
TimerLoop(r) ==
    IF running
    THEN \E t \in Nows :
             /\ now' = [now EXCEPT ![r] = t]
             /\ sleep_time' = [sleep_time EXCEPT ![r] = sleep_time_of(t)]
             /\ resetPc' = [resetPc EXCEPT ![r] = "sleeping"]
    ELSE /\ resetPc' = [resetPc EXCEPT ![r] = "exited"]
         /\ now' = [now EXCEPT ![r] = NoTime]
         /\ sleep_time' = [sleep_time EXCEPT ![r] = 0]

\* First step of the timer task.
ResetStart(r) ==
    /\ resetPc[r] = "created"
    /\ TimerLoop(r)
    /\ UNCHANGED <<config, fault_budget, runs_left, reports_today, last_report_time, clients,
                   connected, replaced, leaked, disc, running, mainPc, initPc, worker,
                   faults, log, pure>>

\* Mutant of ResetFire: the firing also starts again the workers that have
\* returned.
ResetFire_RestartsWorkers(r) ==
    /\ Started(r)
    /\ resetPc[r] = "sleeping"
    /\ reports_today' = [a \in Accounts |-> 0]
    /\ worker' = [worker EXCEPT ![r] =
                    [a \in Accounts |->
                       IF worker[r][a].pc = "done"
                       THEN [NoWorker EXCEPT !.pc = "start"]
                       ELSE worker[r][a]]]
    /\ TimerLoop(r)
    /\ UNCHANGED <<config, fault_budget, runs_left, last_report_time, clients, connected,
                   replaced, leaked, disc, running, mainPc, initPc, faults, log, pure>>

\* Mutant of ResetFire: only the accounts whose worker is still running are
\* zeroed.
ResetFire_SkipsFinished(r) ==
    /\ Started(r)
    /\ resetPc[r] = "sleeping"
    /\ reports_today' = [a \in Accounts |->
                           IF worker[r][a].pc = "done"
                           THEN reports_today[a] ELSE 0]
    /\ TimerLoop(r)
    /\ UNCHANGED <<config, fault_budget, runs_left, last_report_time, clients, connected,
                   replaced, leaked, disc, running, mainPc, initPc, worker, faults, log,
                   pure>>

\* The timer's sleep ended: zero every account, then the while test again.
ResetFire(r) ==
    /\ Started(r)
    /\ resetPc[r] = "sleeping"
    /\ reports_today' = [a \in Accounts |-> 0]
    /\ TimerLoop(r)
    /\ UNCHANGED <<config, fault_budget, runs_left, last_report_time, clients, connected,
                   replaced, leaked, disc, running, mainPc, initPc, worker, faults, log,
                   pure>>

\* ---------------------------------------------------------------------- run
\* The positions of a call of run() at which no call is in progress in its
\* task: not called yet, returned, or ended by an exception.
Ended == {"new", "aborted", "stopped", "interrupted", "raised"}

\* run() is called and runs up to "await asyncio.gather(*init_tasks)"; with no
\* enabled account the gather is already done and run returns at
\* "successful_accounts == 0".  The call is made on the bot as constructed,
\* after an earlier run() has ended, or while an earlier run() is suspended
\* (nothing in run() or start_reporting tests for a run in progress).  The
\* accounts' counters, self.running and self.clients are as the earlier calls
\* left them.  A new call takes the first task r that runs no call.
RunStart(r) ==
    /\ mainPc[r] \in Ended
    /\ \A q \in Runs : q < r => mainPc[q] \notin Ended
    /\ runs_left > 0
    /\ runs_left' = runs_left - 1
    /\ worker' = [worker EXCEPT ![r] = [a \in Accounts |-> NoWorker]]
    /\ resetPc' = [resetPc EXCEPT ![r] = "none"]
    /\ IF \E a \in Accounts : enabled[a]
       THEN /\ initPc' = [initPc EXCEPT ![r] =
                            [a \in Accounts |->
                               IF enabled[a] THEN "pending" ELSE "none"]]
            /\ mainPc' = [mainPc EXCEPT ![r] = "init"]
       ELSE /\ mainPc' = [mainPc EXCEPT ![r] = "aborted"]
            /\ UNCHANGED initPc
    /\ UNCHANGED <<config, fault_budget, reports_today, last_report_time,
                   clients, connected, replaced, leaked, disc, running, faults, log,
                   now, sleep_time, pure>>

\* initialize_client(account) returned True: a new client is connected and
\* stored in self.clients under the account's name.  A client stored there
\* before is replaced (its key keeps its place in the dict); when it is still
\* connected nothing holds it any more, and a disconnect() of it that a run()
\* awaits goes on for the replaced client.
InitOk(r, a) ==
    /\ mainPc[r] = "init"
    /\ initPc[r][a] = "pending"
    /\ initPc' = [initPc EXCEPT ![r][a] = "ok"]
    /\ clients' = IF a \in Keys(clients) THEN clients ELSE Append(clients, a)
    /\ connected' = connected \cup {a}
    /\ replaced' = IF a \in connected
                   THEN [replaced EXCEPT ![a] = @ + 1]
                   ELSE replaced
    /\ disc' = [q \in Runs |->
                  IF /\ mainPc[q] = "disconnect"
                     /\ ~disc[q].closed
                     /\ disc[q].client = "current"
                     /\ clients[disc[q].i] = a
                  THEN [disc[q] EXCEPT !.client = IF a \in connected
                                                  THEN "orphan" ELSE "dead"]
                  ELSE disc[q]]
    /\ UNCHANGED <<config, fault_budget, runs_left, reports_today, last_report_time, running,
                   leaked, mainPc, worker, faults, log, resetPc, now,
                   sleep_time, pure>>

\* initialize_client(account) returned False.  self.clients is left as it is.
\* The exception came from client.connect() or before (no session), or from a
\* later line (is_user_authorized, send_code_request, sign_in): the client is
\* then connected, is not stored in self.clients, and nothing disconnects it.
InitFail(r, a) ==
    /\ mainPc[r] = "init"
    /\ initPc[r][a] = "pending"
    /\ initPc' = [initPc EXCEPT ![r][a] = "failed"]
    /\ \/ UNCHANGED leaked
       \/ leaked' = [leaked EXCEPT ![a] = @ + 1]
    /\ UNCHANGED <<config, fault_budget, runs_left, reports_today,
                   last_report_time, clients, connected, replaced, disc,
                   running, mainPc, worker, faults, log, resetPc, now,
                   sleep_time, pure>>

\* Mutant of RunSchedule: no "successful_accounts == 0" test.
RunSchedule_NoAbort(r) ==
    /\ mainPc[r] = "init"
    /\ \A a \in Accounts : initPc[r][a] # "pending"
    /\ resetPc' = [resetPc EXCEPT ![r] = "created"]
    /\ running' = TRUE
    /\ worker' = [worker EXCEPT ![r] =
                    [a \in Accounts |->
                       IF a \in Keys(clients)
                       THEN [NoWorker EXCEPT !.pc = "start"]
                       ELSE worker[r][a]]]
    /\ mainPc' = [mainPc EXCEPT ![r] = "gather"]
    /\ UNCHANGED <<config, fault_budget, runs_left, reports_today, last_report_time, clients,
                   connected, replaced, leaked, disc, initPc, faults, log, now,
                   sleep_time, pure>>

\* The gather of the init tasks returned: return when no session was acquired
\* in this call, else create the timer task, set running, create one worker
\* task per account in self.clients, and await the workers.
RunSchedule(r) ==
    /\ mainPc[r] = "init"
    /\ \A a \in Accounts : initPc[r][a] # "pending"
    /\ IF Cardinality({a \in Accounts : initPc[r][a] = "ok"}) = 0
       THEN /\ mainPc' = [mainPc EXCEPT ![r] = "aborted"]
            /\ UNCHANGED <<running, resetPc, worker>>
       ELSE /\ resetPc' = [resetPc EXCEPT ![r] = "created"]
            /\ running' = TRUE
            /\ worker' = [worker EXCEPT ![r] =
                            [a \in Accounts |->
                               IF a \in Keys(clients)
                               THEN [NoWorker EXCEPT !.pc = "start"]
                               ELSE worker[r][a]]]
            /\ mainPc' = [mainPc EXCEPT ![r] = "gather"]
    /\ UNCHANGED <<config, fault_budget, runs_left, reports_today, last_report_time, clients,
                   connected, replaced, leaked, disc, initPc, faults, log, now,
                   sleep_time, pure>>

\* "finally": self.running = False, reset_task.cancel(), then the loop over
\* self.clients.values() up to its first "await client.disconnect()".
Finally(r) ==
    /\ running' = FALSE
    /\ resetPc' = [resetPc EXCEPT ![r] = IF @ \in {"created", "sleeping"}
                                         THEN "cancelled" ELSE @]
    /\ now' = [now EXCEPT ![r] = NoTime]
    /\ sleep_time' = [sleep_time EXCEPT ![r] = 0]
    /\ IF clients = <<>>
       THEN /\ mainPc' = [mainPc EXCEPT ![r] = "stopped"]
            /\ UNCHANGED disc
       ELSE /\ mainPc' = [mainPc EXCEPT ![r] = "disconnect"]
            /\ disc' = [disc EXCEPT ![r] = [i |-> 1, n |-> Len(clients),
                                            client |-> "current",
                                            closed |-> FALSE]]

\* Every worker task of the call has ended (returned, or cancelled by an
\* interrupt): the gather is done, run() resumes and "finally" runs.
RunFinally(r) ==
    /\ mainPc[r] = "gather"
    /\ \A a \in Accounts : worker[r][a].pc \in {"none", "done", "cancelled"}
    /\ Finally(r)
    /\ UNCHANGED <<config, fault_budget, runs_left, reports_today, last_report_time, clients,
                   connected, replaced, leaked, initPc, worker, faults, log,
                   pure>>

\* Ctrl-C (a cancellation of the task that runs run()) while run() awaits the
\* workers: the gather cancels every worker task still pending (CancelledError
\* is raised at the await the worker is suspended in; "except Exception" does
\* not catch it).  run() itself resumes in a later step (RunFinally); until
\* then running is still True and the timer is alive.
Interrupt(r) ==
    /\ mainPc[r] = "gather"
    /\ \E a \in Accounts : worker[r][a].pc \notin {"none", "done", "cancelled"}
    /\ worker' = [worker EXCEPT ![r] =
                    [a \in Accounts |->
                       IF worker[r][a].pc \in {"none", "done"}
                       THEN worker[r][a]
                       ELSE [NoWorker EXCEPT
                               !.pc = "cancelled",
                               !.reports_sent = worker[r][a].reports_sent]]]
    /\ UNCHANGED <<config, fault_budget, runs_left, reports_today, last_report_time, clients,
                   connected, replaced, leaked, disc, running, mainPc, initPc, faults,
                   log, resetPc, now, sleep_time, pure>>

\* Ctrl-C while run() awaits the gather of the init tasks: the pending
\* initialize_client tasks are cancelled and run() ends with CancelledError
\* before its "try", so "finally" does not run: the sessions already acquired
\* stay connected.  A task cancelled at an await after client.connect() leaves
\* its client connected and not stored (CancelledError passes "except
\* Exception").
InterruptInit(r) ==
    /\ mainPc[r] = "init"
    /\ initPc' = [initPc EXCEPT ![r] =
                    [a \in Accounts |->
                       IF initPc[r][a] = "pending"
                       THEN "cancelled" ELSE initPc[r][a]]]
    /\ mainPc' = [mainPc EXCEPT ![r] = "interrupted"]
    /\ \E L \in SUBSET {a \in Accounts : initPc[r][a] = "pending"} :
           leaked' = [a \in Accounts |->
                        IF a \in L THEN leaked[a] + 1 ELSE leaked[a]]
    /\ UNCHANGED <<config, fault_budget, runs_left, reports_today,
                   last_report_time, clients, connected, replaced, disc,
                   running, worker, faults, log, resetPc, now, sleep_time,
                   pure>>

\* Ctrl-C while "finally" awaits a client.disconnect(): the loop over the
\* clients is abandoned and the sessions not yet disconnected stay connected.
\* The client whose disconnect() was awaited is disconnected when its
\* connection had been closed already, and connected else.
InterruptDisconnect(r) ==
    /\ mainPc[r] = "disconnect"
    /\ mainPc' = [mainPc EXCEPT ![r] = "interrupted"]
    /\ disc' = [disc EXCEPT ![r] = NoDisc]
    /\ UNCHANGED <<config, fault_budget, runs_left, reports_today,
                   last_report_time, clients, connected, replaced, leaked,
                   running, initPc, worker, faults, log, resetPc, now,
                   sleep_time, pure>>

\* client.disconnect() closes the connection of the client that call r of
\* run() is at: that client is disconnected (were it disconnected before,
\* nothing changes).  It is the value self.clients held when the loop came to
\* its key, also when it was replaced there since.
CloseClient(r) ==
    LET a == clients[disc[r].i]
    IN  /\ connected' = IF disc[r].client = "current"
                        THEN connected \ {a} ELSE connected
        /\ replaced' = IF disc[r].client = "orphan" /\ replaced[a] > 0
                       THEN [replaced EXCEPT ![a] = @ - 1]
                       ELSE replaced

\* The "await client.disconnect()" of the loop over self.clients.values()
\* closed the connection; run() has yet to be resumed.
Disconnect(r) ==
    /\ mainPc[r] = "disconnect"
    /\ ~disc[r].closed
    /\ CloseClient(r)
    /\ disc' = [disc EXCEPT ![r].closed = TRUE]
    /\ UNCHANGED <<config, fault_budget, runs_left, reports_today,
                   last_report_time, clients, leaked, running, mainPc, initPc,
                   worker, faults, log, resetPc, now, sleep_time, pure>>

\* "await client.disconnect()" returned and run() is resumed: the loop takes
\* the next value of the dict: RuntimeError ("dictionary changed size during
\* iteration") leaves run() when a key was added since the loop began, "Bot
\* stopped" follows the last value, else the next disconnect() is awaited.
\* The loop visits every key of self.clients, those of earlier calls included,
\* and no client that was replaced before the loop came to its key.
DisconnectReturn(r) ==
    /\ mainPc[r] = "disconnect"
    /\ disc[r].closed
    /\ IF Len(clients) # disc[r].n
       THEN /\ mainPc' = [mainPc EXCEPT ![r] = "raised"]
            /\ disc' = [disc EXCEPT ![r] = NoDisc]
       ELSE IF disc[r].i = disc[r].n
       THEN /\ mainPc' = [mainPc EXCEPT ![r] = "stopped"]
            /\ disc' = [disc EXCEPT ![r] = NoDisc]
       ELSE /\ disc' = [disc EXCEPT ![r] = [i |-> disc[r].i + 1,
                                            n |-> disc[r].n,
                                            client |-> "current",
                                            closed |-> FALSE]]
            /\ UNCHANGED mainPc
    /\ UNCHANGED <<config, fault_budget, runs_left, reports_today,
                   last_report_time, clients, connected, replaced, leaked,
                   running, initPc, worker, faults, log, resetPc, now,
                   sleep_time, pure>>

\* An "await client.disconnect()" of the loop raised: the exception leaves
\* "finally" and run(); the clients the loop had not come to stay connected.
\* disconnect() raised before it closed the connection, or after.
DisconnectError(r) ==
    /\ mainPc[r] = "disconnect"
    /\ CanFault
    /\ Fault
    /\ mainPc' = [mainPc EXCEPT ![r] = "raised"]
    /\ disc' = [disc EXCEPT ![r] = NoDisc]
    /\ IF disc[r].closed
       THEN UNCHANGED <<connected, replaced>>
       ELSE UNCHANGED <<connected, replaced>> \/ CloseClient(r)
    /\ UNCHANGED <<config, fault_budget, runs_left, reports_today,
                   last_report_time, clients, leaked, running, initPc, worker,
                   log, resetPc, now, sleep_time, pure>>

\* ------------------------------------------------------------ specification
\* The bot after construction, before any call of run(): no client, no task,
\* Account.reports_today and last_report_time at their defaults.
Fresh ==
    /\ reports_today = [a \in Accounts |-> 0]
    /\ last_report_time = [a \in Accounts |-> 0]
    /\ clients = <<>>
    /\ connected = {}
    /\ replaced = [a \in Accounts |-> 0]
    /\ leaked = [a \in Accounts |-> 0]
    /\ running = FALSE
    /\ mainPc = [r \in Runs |-> "new"]
    /\ initPc = [r \in Runs |-> [a \in Accounts |-> "none"]]
    /\ worker = [r \in Runs |-> [a \in Accounts |-> NoWorker]]
    /\ disc = [r \in Runs |-> NoDisc]
    /\ faults = 0
    /\ log = [a \in Accounts |-> [SUCCESS |-> 0, FAILED |-> 0]]
    /\ resetPc = [r \in Runs |-> "none"]
    /\ now = [r \in Runs |-> NoTime]
    /\ sleep_time = [r \in Runs |-> 0]
    /\ rr = NoRotate
    /\ sd = NoDelay
    /\ ck = NoClock

\* The bot as constructed from a configuration file, with any enabled flags
\* and the lowest or the highest of the limits, and run() called once.  With
\* both accounts enabled the behaviour meets at most one fault.
Init ==
    /\ Fresh
    /\ enabled \in [Accounts -> BOOLEAN]
    /\ reports_per_day \in {1, MaxCap}
    /\ max_reports \in {1, MaxReports}
    /\ fault_budget = IF \A a \in Accounts : enabled[a] THEN 1 ELSE MaxFaults
    /\ runs_left = 1

Next ==
    \/ \E r \in Runs : RunStart(r)
    \/ \E r \in Runs, a \in Accounts : InitOk(r, a)
    \/ \E r \in Runs, a \in Accounts : InitFail(r, a)
    \/ \E r \in Runs : RunSchedule(r)
    \/ \E r \in Runs : ResetStart(r)
    \/ \E r \in Runs : ResetFire(r)
    \/ \E r \in Runs, a \in Accounts : WorkerStart(r, a)
    \/ \E r \in Runs, a \in Accounts : GetEntityOk(r, a)
    \/ \E r \in Runs, a \in Accounts : ReportSuccess(r, a)
    \/ \E r \in Runs, a \in Accounts : ReportLogError(r, a)
    \/ \E r \in Runs, a \in Accounts : FloodWait(r, a)
    \/ \E r \in Runs, a \in Accounts : ReportFailed(r, a)
    \/ \E r \in Runs, a \in Accounts : FloodWake(r, a)
    \/ \E r \in Runs, a \in Accounts : DelayWake(r, a)
    \/ \E r \in Runs, a \in Accounts : BreakWake(r, a)
    \/ \E r \in Runs, a \in Accounts : ErrorWake(r, a)
    \/ \E r \in Runs : RunFinally(r)
    \/ \E r \in Runs : Interrupt(r)
    \/ \E r \in Runs : InterruptInit(r)
    \/ \E r \in Runs : InterruptDisconnect(r)
    \/ \E r \in Runs : Disconnect(r)
    \/ \E r \in Runs : DisconnectReturn(r)
    \/ \E r \in Runs : DisconnectError(r)

Spec == Init /\ [][Next]_vars


\* ------------------------------------------- the pure functions on their own
\* One call of rotate_reasons with any draws.
RotateCall ==
    /\ ~rr.called
    /\ \E c \in BOOLEAN, js \in ShuffleDraws, r \in 0..9 :
           rr' = [called |-> TRUE, choice |-> c, js |-> js, r |-> r,
                  reasons |-> rotate_reasons(c, js, r)]
    /\ UNCHANGED <<config, fault_budget, runs_left, reports_today, last_report_time, clients, connected, replaced, leaked, disc,
                   running, mainPc, initPc, worker, faults, log, resetPc, now,
                   sleep_time, sd, ck>>

\* The bot before run(), with one enabled account and the smallest limits.
InitPure ==
    /\ Init
    /\ enabled = [a \in Accounts |-> a = 1]
    /\ reports_per_day = 1
    /\ max_reports = 1

SpecRotate == InitPure /\ [][RotateCall]_vars

\* delay_between_reports values, Account.reports_today values and draws
\* used for smart_delay.
DelayRanges == {<<0, 0>>, <<0, 3>>, <<7, 7>>, <<MinDelay, MaxDelay>>}
DelayTodays == {0, FatigueThreshold, FatigueThreshold + 1, FatigueThreshold + 5}
DelayChances == {0, 1, 5, 9}
DelayPauses == {PauseMin, PauseMin + 1, 180, PauseMax}

\* One call of smart_delay with any configuration, counter and draws.
DelayCall ==
    /\ ~sd.called
    /\ \E range \in DelayRanges, today \in DelayTodays, f \in 12..18,
          c \in DelayChances, p \in DelayPauses :
         \E b \in randint(range[1], range[2]) :
           sd' = [called |-> TRUE, min |-> range[1], max |-> range[2],
                  today |-> today, base |-> b, factor |-> f, chance |-> c,
                  pause |-> p, delay |-> smart_delay(today, b, f, c, p)]
    /\ UNCHANGED <<config, fault_budget, runs_left, reports_today, last_report_time, clients, connected, replaced, leaked, disc,
                   running, mainPc, initPc, worker, faults, log, resetPc, now,
                   sleep_time, rr, ck>>

SpecDelay == InitPure /\ [][DelayCall]_vars

\* Clock readings used for the timer's computation.
ClockDraws == [h : {0, 12, 23}, m : {0, 30, 59}, s : {0, 1, 50, 59},
               ms : {0, 250, 999}]

\* The computation of reset_daily_counts at any clock reading, on the bot
\* before run().
ClockCall ==
    /\ ~ck.called
    /\ \A r \in Runs : mainPc[r] = "new"
    /\ \E t \in ClockDraws :
           ck' = [called |-> TRUE, t |-> t, sleep_time |-> sleep_time_of(t)]
    /\ UNCHANGED <<config, fault_budget, runs_left, reports_today, last_report_time, clients, connected, replaced, leaked, disc,
                   running, mainPc, initPc, worker, faults, log, resetPc, now,
                   sleep_time, rr, sd>>

\* The bot with one enabled account and the highest of the limits.
InitTimer ==
    /\ Fresh
    /\ enabled = [a \in Accounts |-> a = 1]
    /\ reports_per_day = MaxCap
    /\ max_reports = MaxReports
    /\ fault_budget = MaxFaults
    /\ runs_left = 1

NextTimer == Next \/ ClockCall

SpecTimer == InitTimer /\ [][NextTimer]_vars

\* start_reporting called twice, the second time at any moment (after the
\* first call has ended or while it is suspended): on a bot with both accounts
\* enabled, 1 report to send per account and a gateway and log sink that
\* never raise; or on a bot with one enabled account, 3 reports to send and
\* at most one step that raises.
InitRerun ==
    /\ Fresh
    /\ runs_left = 2
    /\ \/ /\ enabled = [a \in Accounts |-> TRUE]
          /\ reports_per_day = 1
          /\ max_reports = 1
          /\ fault_budget = 0
       \/ /\ enabled = [a \in Accounts |-> a = 1]
          /\ reports_per_day = 1
          /\ max_reports = 3
          /\ fault_budget = 1

SpecRerun == InitRerun /\ [][Next]_vars


\* Longest batch rotate_reasons returns.
MaxBatch == Len(base_reasons)

\* ------------------------------------------------------------------ claims
Others(a) == Accounts \ {a}

\* C1: whenever a worker is in a gateway call (send_report has begun and
\* awaits get_entity), its account's reports_today is at most reports_per_day.
\* reports_today cannot grow while the call is pending, so a state that breaks
\* this had reports_today > reports_per_day immediately before the call.
\* Stated for the runs in which every call so far succeeded and was logged
\* (faults = 0), a case of the claim.
C1_CapHoldsAtCall ==
    \A r \in Runs, a \in Accounts :
        (worker[r][a].pc = "get_entity" /\ faults = 0) =>
            reports_today[a] <= reports_per_day

\* C2: in every reachable state, every worker's reports_sent is at most
\* max_reports_per_account.
C2_SentWithinMax ==
    \A r \in Runs, a \in Accounts : worker[r][a].reports_sent <= max_reports

\* C2 witness: a worker has finished with reports_sent = max_reports >= 2
\* in a run that met a fault.
C2_Witness ==
    \E r \in Runs, a \in Accounts :
        /\ worker[r][a].pc = "done"
        /\ worker[r][a].reports_sent = max_reports
        /\ max_reports >= 2
        /\ faults > 0

\* C3: a FloodWaitError(w) suspends the worker it hit for a time in
\* [w + 5, w + 15] seconds, counts nothing (reports_sent and every
\* reports_today unchanged), leaves every other worker as it was, and when the
\* sleep ends the worker goes on (it has not finished).
C3_FloodSuspendsThisWorkerOnly ==
    [][\A r \in Runs, a \in Accounts :
         /\ FloodWait(r, a) =>
              /\ worker'[r][a].pc = "flood_sleep"
              /\ worker'[r][a].sleep >= (worker'[r][a].wait + FloodJitterMin) * 10
              /\ worker'[r][a].sleep <= (worker'[r][a].wait + FloodJitterMax) * 10
              /\ worker'[r][a].reports_sent = worker[r][a].reports_sent
              /\ reports_today' = reports_today
              /\ \A q \in Runs, b \in Accounts :
                    <<q, b>> # <<r, a>> => worker'[q][b] = worker[q][b]
         /\ FloodWake(r, a) =>
              /\ worker'[r][a].pc \notin {"done", "flood_sleep"}
              /\ worker'[r][a].reports_sent = worker[r][a].reports_sent
              /\ reports_today' = reports_today
              /\ \A q \in Runs, b \in Accounts :
                    <<q, b>> # <<r, a>> => worker'[q][b] = worker[q][b]]_vars

\* C3 witness: one worker sleeps on a flood wait of 30 s for 35 s or 45 s
\* while another worker is in a gateway call.
C3_Witness ==
    \E r \in Runs, a \in Accounts :
        /\ worker[r][a].pc = "flood_sleep"
        /\ worker[r][a].wait = 30
        /\ worker[r][a].sleep \in {350, 450}
        /\ \E b \in Others(a) : worker[r][b].pc = "report_request"

\* C4: the gateway call that follows a FloodWaitError at position i is for
\* position i of the same batch (the rate-limited attempt is retried).
C4_RetriesSamePosition ==
    \A r \in Runs, a \in Accounts :
        (worker[r][a].pc = "get_entity" /\ worker[r][a].flood_idx # 0) =>
            /\ worker[r][a].idx = worker[r][a].flood_idx
            /\ worker[r][a].reasons = worker[r][a].flood_reasons

\* C5: as long as no account holds a session, running is false, the timer
\* task does not exist, no worker task exists and nothing was sent or logged;
\* and once the init tasks are over, run() has ended (it returned, or an
\* interrupt ended it during the init tasks).
C5_NoSessionNothingStarts ==
    clients = <<>> =>
        /\ ~running
        /\ \A r \in Runs :
              /\ resetPc[r] = "none"
              /\ mainPc[r] \in {"new", "init", "aborted", "interrupted"}
        /\ \A r \in Runs, a \in Accounts :
              /\ worker[r][a] = NoWorker
              /\ reports_today[a] = 0
              /\ log[a] = [SUCCESS |-> 0, FAILED |-> 0]

\* C5 witness: run() has returned after an enabled account failed to get a
\* session.
C5_Witness ==
    \E r \in Runs, a \in Accounts :
        /\ mainPc[r] = "aborted"
        /\ initPc[r][a] = "failed"

\* C6: a firing of the reset timer zeroes reports_today of every account in
\* one step and leaves reports_sent and the rest of every worker,
\* last_report_time, running, the log, the sessions and run() as they were.
C6_ResetZeroesAllOnly ==
    [][(\E q \in Runs : ResetFire(q)) =>
         /\ \A a \in Accounts : reports_today'[a] = 0
         /\ UNCHANGED <<worker, last_report_time, running, log, clients,
                        connected, mainPc, initPc, config>>]_vars

\* C6 witness: after a firing, an account whose worker has finished and which
\* has reported shows reports_today = 0 while another worker still runs.
C6_Witness ==
    \E r \in Runs, a \in Accounts :
        /\ worker[r][a].pc = "done"
        /\ log[a].SUCCESS > 0
        /\ reports_today[a] = 0
        /\ \E b \in Others(a) : worker[r][b].pc = "smart_delay"

\* Seconds from a clock reading to the next midnight, in milliseconds, for the
\* reading's whole seconds since midnight.
UntilMidnight(t) == (DaySeconds - (t.h * 3600 + t.m * 60 + t.s)) * Milli

\* C7: the sleep the timer computes is 86400 - s seconds for a clock reading
\* of s whole seconds since midnight, between 1 and 86400 seconds; and with
\* running true the timer computes a new sleep and sleeps again after every
\* firing.
C7_SleepUntilMidnight ==
    /\ [](/\ ck.called =>
               /\ ck.sleep_time = UntilMidnight(ck.t)
               /\ ck.sleep_time >= 1 * Milli
               /\ ck.sleep_time <= DaySeconds * Milli
          /\ \A r \in Runs :
               resetPc[r] = "sleeping" =>
                   /\ sleep_time[r] = UntilMidnight(now[r])
                   /\ sleep_time[r] >= 1 * Milli
                   /\ sleep_time[r] <= DaySeconds * Milli)
    /\ [][\A r \in Runs :
            (ResetFire(r) /\ running) =>
                /\ resetPc'[r] = "sleeping"
                /\ sleep_time'[r] = UntilMidnight(now'[r])]_vars

\* C7 witness: the timer has fired (an account that reported is back at 0) and
\* sleeps again, for 10 s from 23:59:50; the computation at 23:59:50.25 gave
\* 10 s too.
C7_Witness ==
    /\ \E r \in Runs :
          /\ resetPc[r] = "sleeping"
          /\ now[r] = [h |-> 23, m |-> 59, s |-> 50, ms |-> 0]
          /\ sleep_time[r] = 10 * Milli
    /\ \E a \in Accounts : log[a].SUCCESS > 0 /\ reports_today[a] = 0
    /\ ck.called
    /\ ck.t = [h |-> 23, m |-> 59, s |-> 50, ms |-> 250]
    /\ ck.sleep_time = 10 * Milli

\* C8: a worker that comes to the top of its loop with reports_today >=
\* reports_per_day finishes in that step: no batch, no call, no pacing or rest,
\* reports_sent as it was, nothing counted or logged.
C8_DailyLimitEndsWorker ==
    [][\A r \in Runs, a \in Accounts :
         ((WorkerStart(r, a) \/ BreakWake(r, a) \/ ErrorWake(r, a))
              /\ reports_today[a] >= reports_per_day) =>
            /\ worker'[r][a].pc = "done"
            /\ worker'[r][a].reasons = <<>>
            /\ worker'[r][a].sleep = 0
            /\ worker'[r][a].reports_sent = worker[r][a].reports_sent
            /\ UNCHANGED <<reports_today, last_report_time, log>>]_vars

\* C8 witness: a worker has finished below max_reports, its account at or
\* over the daily limit (only the daily-limit test ends a worker so).
C8_Witness ==
    \E r \in Runs, a \in Accounts :
        /\ worker[r][a].pc = "done"
        /\ worker[r][a].reports_sent < max_reports
        /\ reports_today[a] >= reports_per_day

Range(f) == {f[i] : i \in DOMAIN f}

\* C9: rotate_reasons returns <<spam, spam, fake>> when the override draw is
\* below 0.3, whatever the shuffle draw; otherwise the five base reasons, each
\* once, in the base order when the shuffle draw was False.
C9_RotateReasons ==
    rr.called =>
        /\ rr.r < 3 => rr.reasons = <<"spam", "spam", "fake">>
        /\ rr.r >= 3 =>
             /\ Len(rr.reasons) = 5
             /\ Range(rr.reasons) = Range(base_reasons)
             /\ \A i, j \in 1..5 : rr.reasons[i] = rr.reasons[j] => i = j
             /\ ~rr.choice => rr.reasons = base_reasons

\* C9 witness: a call whose shuffle branch was taken and changed the order.
C9_Witness ==
    /\ rr.called
    /\ rr.choice
    /\ rr.r >= 3
    /\ rr.reasons # base_reasons
    /\ rr.reasons[1] = "other"

\* C10: smart_delay's delay (in tenths of a second) is >= 0; with
\* reports_today <= 10 and no extra pause it lies in [min, max]; with
\* reports_today > 10 it is at least 1.2 times the base draw (so at least
\* 1.2 * min) and at most 1.8 * max plus the pause, if taken; a pause taken
\* adds between 60 and 300 seconds.
C10_SmartDelay ==
    sd.called =>
        LET paused == sd.chance < 1
            scaled == IF sd.today > FatigueThreshold
                      THEN sd.base * sd.factor ELSE sd.base * 10
        IN  /\ sd.delay >= 0
            /\ (sd.today <= FatigueThreshold /\ ~paused) =>
                   /\ sd.delay >= sd.min * 10
                   /\ sd.delay <= sd.max * 10
            /\ sd.today > FatigueThreshold =>
                   /\ sd.delay >= 12 * sd.base
                   /\ sd.delay >= 12 * sd.min
                   /\ sd.delay <= 18 * sd.max + (IF paused THEN sd.pause * 10 ELSE 0)
            /\ paused =>
                   /\ sd.delay - scaled >= PauseMin * 10
                   /\ sd.delay - scaled <= PauseMax * 10
            /\ ~paused => sd.delay = scaled

\* C10 witness: a call with reports_today = 11, factor 1.8 on the largest
\* base draw of the default range, and the pause taken.
C10_Witness ==
    /\ sd.called
    /\ sd.today = FatigueThreshold + 1
    /\ sd.base = MaxDelay
    /\ sd.factor = 18
    /\ sd.chance < 1
    /\ sd.delay = 18 * MaxDelay + sd.pause * 10

\* C11: once run() releases the sessions (its "finally" has begun to
\* disconnect, or has finished), every worker task has returned through its
\* own loop test: none was stopped inside a gateway call or a sleep.  Stated
\* for the workers that had already reported at least once (they were past
\* their first await when run() came to "finally"), a case of the claim.
C11_OrderlyExit ==
    \A r \in Runs, a \in Accounts :
        (mainPc[r] \in {"disconnect", "stopped"} /\ log[a].SUCCESS > 0) =>
            worker[r][a].pc \in {"none", "done"}

\* C12: errors stay with the account they happen to; in particular an
\* account whose initialize_client returned False in this run() gets no worker
\* task when run() creates the workers.
C12_FailedInitGetsNoWorker ==
    [][\A r \in Runs, a \in Accounts :
         (RunSchedule(r) /\ initPc[r][a] = "failed") =>
             worker'[r][a] = NoWorker]_vars

\* C13: no update of reports_today is lost.  Every step of the program (each
\* runs from one await to the next) leaves an account's reports_today at 0
\* when it is a firing of the timer, at one more than before when it is a
\* completed ReportRequest of that account's worker, and as it was otherwise:
\* so at every await reports_today is the number of completed ReportRequests
\* of the account since the last firing, or since the start.
C13_NoLostUpdate ==
    [][\A a \in Accounts :
         reports_today'[a] =
             IF \E q \in Runs : ResetFire(q) THEN 0
             ELSE IF \E r \in Runs : ReportSuccess(r, a) \/ ReportLogError(r, a)
                  THEN reports_today[a] + 1
                  ELSE reports_today[a]]_vars

\* C13 witness: an account reported, the timer fired, and it reported again:
\* two "SUCCESS" records, reports_today = 1, and its worker still runs.
C13_Witness ==
    \E r \in Runs, a \in Accounts :
        /\ faults = 0
        /\ log[a].SUCCESS = 2
        /\ reports_today[a] = 1
        /\ worker[r][a].pc = "smart_delay"

\* C14: after running is set back to False every worker comes to its own
\* loop test and returns.  In a finite run this says: when run() has ended
\* after "finally" (nothing is left to run), every worker task that was
\* created has returned from report_worker.  Stated for the workers that had
\* counted a report (they were inside their loop when running was set to
\* False, or had returned), a case of the claim.
C14_StoppedWorkersReturned ==
    \A r \in Runs, a \in Keys(clients) :
        (mainPc[r] = "stopped" /\ worker[r][a].reports_sent > 0) =>
            worker[r][a].pc = "done"

\* A step in which an attempt of worker a ends: send_report returns to the
\* for loop, or raises into the handler of the worker's while loop.
AttemptEnds(r, a) ==
    \/ ReportSuccess(r, a)
    \/ ReportLogError(r, a)
    \/ ReportFailed(r, a)
    \/ FloodWake(r, a)

\* C15 as claimed: a worker sleeps in smart_delay only when a reason is left
\* in its batch and reports_sent < max_reports.
C15_PacingOnlyBetweenReasons ==
    \A r \in Runs, a \in Accounts :
        worker[r][a].pc = "smart_delay" =>
            /\ worker[r][a].idx < Len(worker[r][a].reasons)
            /\ worker[r][a].reports_sent < max_reports

\* C15 as amended: a worker sleeps in smart_delay after an attempt only if
\* reports_sent < max_reports, whether or not a reason is left in the batch.
\* No attempt is followed by the rest between batches at once: after the
\* attempt for the last reason of a batch the worker returns when reports_sent
\* has reached max_reports, sleeps in the error handler of its loop when
\* send_report raised (which only a failure of the log sink brings about), and
\* else sleeps in smart_delay on that reason; after that smart_delay it takes
\* the rest between batches (with running still True; with running False it
\* returns).
C15_PacingWheneverBelowMax ==
    [][\A r \in Runs, a \in Accounts :
         /\ AttemptEnds(r, a) =>
              /\ worker'[r][a].pc = "smart_delay" =>
                     worker'[r][a].reports_sent < max_reports
              /\ worker'[r][a].pc # "batch_break"
              /\ worker'[r][a].pc = "error_sleep" =>
                     ReportLogError(r, a) \/ ReportFailed(r, a)
         /\ (AttemptEnds(r, a) /\ worker[r][a].idx = Len(worker[r][a].reasons)) =>
              \/ /\ worker'[r][a].pc = "done"
                 /\ worker'[r][a].reports_sent >= max_reports
              \/ /\ worker'[r][a].pc = "error_sleep"
                 /\ worker'[r][a].reports_sent < max_reports
              \/ /\ worker'[r][a].pc = "smart_delay"
                 /\ worker'[r][a].reports_sent < max_reports
                 /\ worker'[r][a].idx = worker[r][a].idx
         /\ (DelayWake(r, a) /\ worker[r][a].idx = Len(worker[r][a].reasons)) =>
              worker'[r][a].pc = IF running THEN "batch_break" ELSE "done"]_vars

\* C15 witness: a worker sleeps in smart_delay after the last reason of its
\* batch, with reports_sent < max_reports.
C15_Witness ==
    \E r \in Runs, a \in Accounts :
        /\ worker[r][a].pc = "smart_delay"
        /\ worker[r][a].idx = Len(worker[r][a].reasons)
        /\ worker[r][a].reports_sent < max_reports
        /\ worker[r][a].reports_sent > 0

\* C16: a step in which ReportRequest completes for account a (the only steps
\* that add to reports_today) adds exactly 1 to reports_today[a] and 1 to the
\* worker's reports_sent, sets last_report_time[a] and writes exactly one
\* "SUCCESS" record and no "FAILED" record, all in that one step; no other
\* step adds to reports_today[a] or changes the worker's reports_sent.
C16_SuccessCountsBoth ==
    [][\A a \in Accounts :
         IF reports_today'[a] > reports_today[a]
         THEN /\ reports_today'[a] = reports_today[a] + 1
              /\ \E r \in Runs :
                    /\ worker[r][a].pc = "report_request"
                    /\ worker'[r][a].reports_sent = worker[r][a].reports_sent + 1
              /\ last_report_time'[a] # last_report_time[a]
              /\ log'[a].SUCCESS = log[a].SUCCESS + 1
              /\ log'[a].FAILED = log[a].FAILED
         ELSE /\ \A r \in Runs :
                    \/ worker'[r][a].reports_sent = worker[r][a].reports_sent
                    \/ RunStart(r)
              /\ log'[a].SUCCESS = log[a].SUCCESS]_vars

\* C17: a step in which get_entity or ReportRequest raises an exception other
\* than FloodWaitError writes exactly one "FAILED" record, leaves reports_sent,
\* reports_today and last_report_time as they were, and leaves the worker in
\* its batch at the reason it tried, about to go on to the next one (it sleeps
\* in smart_delay, not in the loop's error handler, and has not returned); a
\* flood wait writes no record.
C17_FailureLoggedBatchGoesOn ==
    [][\A r \in Runs, a \in Accounts :
         /\ ReportFailed(r, a) =>
              /\ log'[a].FAILED = log[a].FAILED + 1
              /\ log'[a].SUCCESS = log[a].SUCCESS
              /\ worker'[r][a].reports_sent = worker[r][a].reports_sent
              /\ UNCHANGED <<reports_today, last_report_time>>
              /\ worker'[r][a].pc = "smart_delay"
              /\ worker'[r][a].reasons = worker[r][a].reasons
              /\ worker'[r][a].idx = worker[r][a].idx
         /\ (FloodWait(r, a) \/ FloodWake(r, a)) => log' = log]_vars

\* C18: a worker is in a gateway call only for an account whose
\* initialize_client returned True in this run() (an account whose session
\* acquisition failed makes no attempt), and no account has two gateway calls
\* in flight at once.
C18_OneCallPerSessionHolder ==
    /\ \A r \in Runs, a \in Accounts :
          worker[r][a].pc \in {"get_entity", "report_request"} =>
              initPc[r][a] = "ok"
    /\ \A a \in Accounts :
          Cardinality({r \in Runs : worker[r][a].pc \in
                          {"get_entity", "report_request"}}) <= 1

\* C19: reports_today never exceeds reports_per_day by more than 4 (one less
\* than the longest batch).
C19_OvershootBelowBatch ==
    \A a \in Accounts : reports_today[a] <= reports_per_day + (MaxBatch - 1)

\* C20: a worker that has returned from report_worker stays returned: no
\* later step (a firing of the timer that zeroes reports_today with running
\* still True included) changes its record, so it makes no further gateway
\* call and counts nothing more: only a worker task of another call of run()
\* adds to its account's reports_today or log.  (The next call of run() in its
\* place creates new worker tasks.)
C20_DoneIsTerminal ==
    [][\A r \in Runs, a \in Accounts :
         (worker[r][a].pc = "done" /\ ~RunStart(r)) =>
             /\ worker'[r][a] = worker[r][a]
             /\ reports_today'[a] > reports_today[a] =>
                    \E q \in Runs \ {r} :
                        ReportSuccess(q, a) \/ ReportLogError(q, a)
             /\ log'[a] # log[a] =>
                    \E q \in Runs \ {r} :
                        worker[q][a].pc \in {"get_entity", "report_request"}]_vars

\* C20 witness: in a second run() a worker returned with reports_sent =
\* max_reports, the timer has since zeroed its account's reports_today, and
\* running is still True while the other worker is in a gateway call.
C20_Witness ==
    \E r \in Runs, a \in Accounts :
        /\ runs_left = 0
        /\ max_reports = 1
        /\ worker[r][a].pc = "done"
        /\ worker[r][a].reports_sent = max_reports
        /\ log[a].SUCCESS = 2
        /\ reports_today[a] = 0
        /\ running
        /\ \E b \in Others(a) : worker[r][b].pc = "get_entity"

\* Some pending worker task was cancelled by an interrupt of run().
Interrupted == \E r \in Runs, a \in Accounts : worker[r][a].pc = "cancelled"

\* C21: run() ends by releasing every session.  In a finite run this says:
\* when every call of run() has come to "Bot stopped" and no interrupt has cut
\* a task short, no client is left connected: none in self.clients, none that
\* was replaced there, none that was connected and never stored.
C21_StoppedReleasesAll ==
    ((\A r \in Runs : mainPc[r] = "stopped") /\ ~Interrupted) =>
        /\ connected = {}
        /\ \A a \in Accounts : replaced[a] = 0 /\ leaked[a] = 0

====
